---- MODULE Spec2Model ----
(***************************************************************************)
(* A model of the bq24195 driver (src/src/lib.rs): the field codecs (the   *)
(* repr(u8) enumerations with their Into<u8> / From<u8> conversions), the  *)
(* register bitfields declared with bitfield!, and the I2C adapter         *)
(* Bq24195<I2C>.                                                           *)
(*                                                                         *)
(* A value of a repr(u8) enumeration is the record                         *)
(*   [enum |-> its type, variant |-> its name, disc |-> its discriminant]. *)
(* mem::transmute of a byte that is no declared discriminant is undefined  *)
(* behaviour: the model gives every outcome a build can produce, i.e. any  *)
(* declared variant of the type, or a value that keeps the undeclared      *)
(* discriminant (variant "<undeclared>").                                  *)
(***************************************************************************)
EXTENDS Integers, Sequences, FiniteSets, TLC

VARIABLES
    \* --- codec harness: one conversion applied to one input
    cOp,        \* <<operation, enumeration>> of the last conversion, or <<"none","none">>
    cIn,        \* its input: a byte (decode) or an enumeration value (round trip)
    cOut,       \* its result: an enumeration value
    \* --- register harness: the caller owns one register value at a time
    regType,    \* which bitfield struct the value is
    regByte,    \* its stored byte (field .0)
    origin,     \* "default" | "raw" | "bus": how the value held (or just sent) was made
    preByte,    \* the stored byte before the last setter call
    lastSet,    \* the last setter call since construction, or NoSet
    got,        \* the last accessor call since the last change, or NoGet
    wire,       \* the bus invocations of the last step and the bus's answer, or NoWire
    ret,        \* the Result returned by the last adapter call, or NoRet
    \* --- bus harness: a recording bus under a sequence of adapter calls
    calls,      \* the adapter calls made, in order
    busLog,     \* the bus primitive invocations, in order
    results     \* the Result each adapter call returned, in order

vars == <<cOp, cIn, cOut, regType, regByte, origin, preByte, lastSet, got,
          wire, ret, calls, busLog, results>>
codecVars == <<cOp, cIn, cOut>>
regVars == <<regType, regByte, origin, preByte, lastSet, got, wire, ret>>
busVars == <<calls, busLog, results>>

(***************************************************************************)
(* u8 arithmetic                                                           *)
(***************************************************************************)
U8 == 0..255

Shl(x, n) == (x * (2 ^ n)) % 256

Shr(x, n) == x \div (2 ^ n)

Not8(x) == 255 - x

RECURSIVE BitAndN(_, _, _)
BitAndN(a, b, n) ==
    IF n = 0 THEN 0
    ELSE (IF a % 2 = 1 /\ b % 2 = 1 THEN 1 ELSE 0)
         + 2 * BitAndN(a \div 2, b \div 2, n - 1)

BitAnd(a, b) == BitAndN(a, b, 8)

RECURSIVE BitOrN(_, _, _)
BitOrN(a, b, n) ==
    IF n = 0 THEN 0
    ELSE (IF a % 2 = 1 \/ b % 2 = 1 THEN 1 ELSE 0)
         + 2 * BitOrN(a \div 2, b \div 2, n - 1)

BitOr(a, b) == BitOrN(a, b, 8)

(***************************************************************************)
(* Field codecs                                                            *)
(***************************************************************************)
EnumOf(e, names, discs) ==
    { [enum |-> e, variant |-> names[i], disc |-> discs[i]] : i \in DOMAIN names }

InputVoltageLimit ==
    EnumOf("InputVoltageLimit",
           <<"V3_88", "V3_96", "V4_04", "V4_12", "V4_2", "V4_28", "V4_36", "V4_44",
             "V4_52", "V4_6", "V4_68", "V4_76", "V4_84", "V4_92", "V5", "V5_08">>,
           <<0, 1, 2, 3, 4, 5, 6, 7, 8, 9, 10, 11, 12, 13, 14, 15>>)

InputCurrentLimit ==
    EnumOf("InputCurrentLimit",
           <<"MA100", "MA150", "MA500", "MA900", "MA1200", "MA1500", "MA2000", "MA3000">>,
           <<0, 1, 2, 3, 4, 5, 6, 7>>)

ChargerConfiguration ==
    EnumOf("ChargerConfiguration",
           <<"ChargeDisabled", "ChargeBattery", "OTG">>,
           <<0, 1, 2>>)

MinimumSystemVoltage ==
    EnumOf("MinimumSystemVoltage",
           <<"V3", "V3_1", "V3_2", "V3_3", "V3_4", "V3_5", "V3_6", "V3_7">>,
           <<0, 1, 2, 3, 4, 5, 6, 7>>)

VbusStatus ==
    EnumOf("VbusStatus", <<"Unknown", "UsbHost", "Adapter", "Otg">>, <<0, 1, 2, 3>>)

ChargeStatus ==
    EnumOf("ChargeStatus",
           <<"NotCharging", "PreCharge", "FastCharge", "ChargeDone">>, <<0, 1, 2, 3>>)

DpmStatus ==
    EnumOf("DpmStatus", <<"NotDynamicPowerManagement", "Vindpm">>, <<0, 1>>)

PowerStatus == EnumOf("PowerStatus", <<"NotGood", "Good">>, <<0, 1>>)

ThermalStatus == EnumOf("ThermalStatus", <<"Normal", "Regulated">>, <<0, 1>>)

VsysStatus == EnumOf("VsysStatus", <<"NotRegulated", "Regulated">>, <<0, 1>>)

Watchdog == EnumOf("Watchdog", <<"Normal", "Expired">>, <<0, 1>>)

ChargeFault ==
    EnumOf("ChargeFault",
           <<"Normal", "InputFault", "ThermalShutdown", "SafetyTimerExpired">>,
           <<0, 1, 2, 3>>)

BatteryFault == EnumOf("BatteryFault", <<"Normal", "OverVoltageThreshold">>, <<0, 1>>)

\* No explicit discriminants: the variants number from 0 in declaration order.
ThermistorFault ==
    EnumOf("ThermistorFault", <<"Normal", "Cold", "Hot", "Unknown">>, <<0, 1, 2, 3>>)

Variants(e) ==
    CASE e = "InputVoltageLimit"    -> InputVoltageLimit
      [] e = "InputCurrentLimit"    -> InputCurrentLimit
      [] e = "ChargerConfiguration" -> ChargerConfiguration
      [] e = "MinimumSystemVoltage" -> MinimumSystemVoltage
      [] e = "VbusStatus"           -> VbusStatus
      [] e = "ChargeStatus"         -> ChargeStatus
      [] e = "DpmStatus"            -> DpmStatus
      [] e = "PowerStatus"          -> PowerStatus
      [] e = "ThermalStatus"        -> ThermalStatus
      [] e = "VsysStatus"           -> VsysStatus
      [] e = "Watchdog"             -> Watchdog
      [] e = "ChargeFault"          -> ChargeFault
      [] e = "BatteryFault"         -> BatteryFault
      [] e = "ThermistorFault"      -> ThermistorFault

\* The enumerations with a From<u8>, and those among them with an Into<u8>.
DecodedEnums ==
    {"InputVoltageLimit", "InputCurrentLimit", "ChargerConfiguration",
     "MinimumSystemVoltage", "VbusStatus", "ChargeStatus", "DpmStatus", "PowerStatus",
     "ThermalStatus", "VsysStatus", "Watchdog", "ChargeFault", "BatteryFault",
     "ThermistorFault"}

EncodedEnums ==
    {"InputVoltageLimit", "InputCurrentLimit", "ChargerConfiguration",
     "MinimumSystemVoltage"}

Variant(e, name) == CHOOSE v \in Variants(e) : v.variant = name

Undeclared(e, d) == [enum |-> e, variant |-> "<undeclared>", disc |-> d]

\* mem::transmute::<u8, e>(d): the outcomes a build can produce.
Transmute(e, d) ==
    IF \E v \in Variants(e) : v.disc = d
    THEN {v \in Variants(e) : v.disc = d}
    ELSE Variants(e) \cup {Undeclared(e, d)}

\* `self as u8`
Into_u8(v) == v.disc

\* The mask each From<u8> applies to its argument.
FromMask(e) ==
    CASE e = "InputVoltageLimit"    -> 7
      [] e = "InputCurrentLimit"    -> 7
      [] e = "ChargerConfiguration" -> 3
      [] e = "MinimumSystemVoltage" -> 7
      [] e = "VbusStatus"           -> 7
      [] e = "ChargeStatus"         -> 3
      [] e = "DpmStatus"            -> 1
      [] e = "PowerStatus"          -> 1
      [] e = "ThermalStatus"        -> 1
      [] e = "VsysStatus"           -> 1
      [] e = "Watchdog"             -> 1
      [] e = "ChargeFault"          -> 3
      [] e = "BatteryFault"         -> 1
      [] e = "ThermistorFault"      -> 7

\* Mutant of ThermistorFault_from: the lookup read as a linear range.
ThermistorFault_from_linear(val) ==
    LET m == BitAnd(val, 7)
    IN  CASE m = 0 -> Variant("ThermistorFault", "Normal")
          [] m = 1 -> Variant("ThermistorFault", "Cold")
          [] m = 2 -> Variant("ThermistorFault", "Hot")
          [] OTHER -> Variant("ThermistorFault", "Unknown")

ThermistorFault_from(val) ==
    LET m == BitAnd(val, 7)
    IN  CASE m = 0 -> Variant("ThermistorFault", "Normal")
          [] m = 5 -> Variant("ThermistorFault", "Cold")
          [] m = 6 -> Variant("ThermistorFault", "Hot")
          [] OTHER -> Variant("ThermistorFault", "Unknown")

\* From<u8> for e: the set of values the call can return (one, unless the
\* transmute is undefined behaviour).
From_u8(e, val) ==
    IF e = "ThermistorFault"
    THEN {ThermistorFault_from(val)}
    ELSE Transmute(e, BitAnd(val, FromMask(e)))

(***************************************************************************)
(* Register bitfields (bitfield!)                                          *)
(***************************************************************************)
\* A bool field's value, as the u8 it is cast to (`value as u8`).
Bool == EnumOf("bool", <<"false", "true">>, <<0, 1>>)

BoolOf(b) == CHOOSE v \in Bool : v.variant = (IF b THEN "true" ELSE "false")

\* BitRange<u8> for u8, as the bitfield crate implements it (bit_len = 8).
bit_range(self, msb, lsb) ==
    LET result == Shr(Shl(self, 8 - msb - 1), 8 - msb - 1 + lsb)
    IN  Shr(Shl(result, 8 - (msb - lsb + 1)), 8 - (msb - lsb + 1))

set_bit_range(self, msb, lsb, value) ==
    LET mask == Shl(Shr(Shl(Not8(0), 8 - msb - 1), 8 - msb - 1 + lsb), lsb)
    IN  BitOr(BitAnd(self, Not8(mask)), BitAnd(Shl(value, lsb), mask))

bit(self, b) == bit_range(self, b, b) # 0

set_bit(self, b, value) == set_bit_range(self, b, b, Into_u8(value))

Field(g, s, ty, msb, lsb) ==
    [getter |-> g, setter |-> s, ty |-> ty, msb |-> msb, lsb |-> lsb]

\* Mutant of InputSourceControlFields: input_voltage_limit declared one bit
\* too wide, over bit 2 of input_current_limit.
InputSourceControlFields_overlap ==
    { Field("hiz", "set_hiz", "bool", 7, 7),
      Field("input_voltage_limit", "set_input_voltage_limit", "InputVoltageLimit", 6, 2),
      Field("input_current_limit", "set_input_current_limit", "InputCurrentLimit", 2, 0) }

InputSourceControlFields ==
    { Field("hiz", "set_hiz", "bool", 7, 7),
      Field("input_voltage_limit", "set_input_voltage_limit", "InputVoltageLimit", 6, 3),
      Field("input_current_limit", "set_input_current_limit", "InputCurrentLimit", 2, 0) }

\* Mutant of PowerOnConfigurationFields: minimum_system_voltage declared one
\* bit too low, over bit 0.
PowerOnConfigurationFields_lsb0 ==
    { Field("register_reset", "set_reset", "bool", 7, 7),
      Field("watchdog_reset", "set_watchdog_reset", "bool", 6, 6),
      Field("charger_configuration", "set_charger_configuration",
            "ChargerConfiguration", 5, 4),
      Field("minimum_system_voltage", "set_minimum_system_voltage",
            "MinimumSystemVoltage", 2, 0) }

PowerOnConfigurationFields ==
    { Field("register_reset", "set_reset", "bool", 7, 7),
      Field("watchdog_reset", "set_watchdog_reset", "bool", 6, 6),
      Field("charger_configuration", "set_charger_configuration",
            "ChargerConfiguration", 5, 4),
      Field("minimum_system_voltage", "set_minimum_system_voltage",
            "MinimumSystemVoltage", 3, 1) }

MiscOperationControlFields ==
    { Field("dpdm_detection", "set_dpdm_detection", "bool", 7, 7),
      Field("safety_timer_slowed", "set_safety_timer_slowed", "bool", 6, 6),
      Field("battery_fet_disabled", "set_battery_fet_disabled", "bool", 5, 5),
      Field("charge_fault_interrupt", "set_charge_fault_interrupt", "bool", 1, 1),
      Field("battery_fault_interrupt", "set_battery_fault_interrupt", "bool", 0, 0) }

SystemStatusFields ==
    { Field("vbus_status", "_", "VbusStatus", 7, 6),
      Field("charge_status", "_", "ChargeStatus", 5, 4),
      Field("dpm_status", "_", "DpmStatus", 3, 3),
      Field("power_status", "_", "PowerStatus", 2, 2),
      Field("thermal_status", "_", "ThermalStatus", 1, 1),
      Field("vsys_status", "_", "VsysStatus", 0, 0) }

FaultFields ==
    { Field("watchdog", "_", "Watchdog", 7, 7),
      Field("charge_fault", "_", "ChargeFault", 5, 4),
      Field("battery_fault", "_", "BatteryFault", 3, 3),
      Field("thermistor_fault", "_", "ThermistorFault", 2, 0) }

WritableRegisters == {"InputSourceControl", "PowerOnConfiguration", "MiscOperationControl"}

ReadOnlyRegisters == {"SystemStatus", "Fault"}

Fields(t) ==
    CASE t = "InputSourceControl"   -> InputSourceControlFields
      [] t = "PowerOnConfiguration" -> PowerOnConfigurationFields
      [] t = "MiscOperationControl" -> MiscOperationControlFields
      [] t = "SystemStatus"         -> SystemStatusFields
      [] t = "Fault"                -> FaultFields
      [] OTHER                      -> {}

FieldOf(t, g) == CHOOSE f \in Fields(t) : f.getter = g

\* The values a field's setter accepts.
FieldValues(f) == IF f.ty = "bool" THEN Bool ELSE Variants(f.ty)

\* The generated getter: the values the call can return.
Getter(f, byte) ==
    IF f.ty = "bool"
    THEN {BoolOf(bit(byte, f.msb))}
    ELSE From_u8(f.ty, bit_range(byte, f.msb, f.lsb))

\* The generated setter: the stored byte after the call.
Setter(f, byte, value) ==
    IF f.ty = "bool"
    THEN set_bit(byte, f.msb, value)
    ELSE set_bit_range(byte, f.msb, f.lsb, Into_u8(value))

InputSourceControl_default ==
    LET t    == "InputSourceControl"
        reg0 == 0
        reg1 == Setter(FieldOf(t, "hiz"), reg0, BoolOf(FALSE))
        reg2 == Setter(FieldOf(t, "input_voltage_limit"), reg1,
                       Variant("InputVoltageLimit", "V4_36"))
        reg3 == Setter(FieldOf(t, "input_current_limit"), reg2,
                       Variant("InputCurrentLimit", "MA100"))
    IN  reg3

\* Mutant of PowerOnConfiguration_default: the initial byte without its lsb.
PowerOnConfiguration_default_nolsb ==
    LET t    == "PowerOnConfiguration"
        reg0 == 0
        reg1 == Setter(FieldOf(t, "charger_configuration"), reg0,
                       Variant("ChargerConfiguration", "ChargeBattery"))
        reg2 == Setter(FieldOf(t, "minimum_system_voltage"), reg1,
                       Variant("MinimumSystemVoltage", "V3_5"))
    IN  reg2

PowerOnConfiguration_default ==
    LET t    == "PowerOnConfiguration"
        reg0 == 1
        reg1 == Setter(FieldOf(t, "charger_configuration"), reg0,
                       Variant("ChargerConfiguration", "ChargeBattery"))
        reg2 == Setter(FieldOf(t, "minimum_system_voltage"), reg1,
                       Variant("MinimumSystemVoltage", "V3_5"))
    IN  reg2

MiscOperationControl_default ==
    LET t    == "MiscOperationControl"
        reg0 == 8
        reg1 == Setter(FieldOf(t, "charge_fault_interrupt"), reg0, BoolOf(TRUE))
        reg2 == Setter(FieldOf(t, "battery_fault_interrupt"), reg1, BoolOf(TRUE))
    IN  reg2

Default(t) ==
    CASE t = "InputSourceControl"   -> InputSourceControl_default
      [] t = "PowerOnConfiguration" -> PowerOnConfiguration_default
      [] t = "MiscOperationControl" -> MiscOperationControl_default

(***************************************************************************)
(* Transport adapter (Bq24195<I2C>)                                        *)
(***************************************************************************)
ADDRESS == 107

Register ==
    [ InputSourceControl                 |-> 0,
      PowerOnConfiguration               |-> 1,
      ChargeCurrentControl               |-> 2,
      PreChargeTerminationCurrentControl |-> 3,
      ChargeVoltageControl               |-> 4,
      ChargeTerminationTimerControl      |-> 5,
      ThermalRegulationControl           |-> 6,
      MiscOperationControl               |-> 7,
      SystemStatus                       |-> 8,
      Fault                              |-> 9,
      VendorPartRevisionStatus           |-> 10 ]

\* A register value: the bitfield struct and its stored byte.
RegValue(t, byte) == [type |-> t, byte |-> byte]

Unit == RegValue("()", 0)

NoValue == RegValue("none", 0)

NoError == [kind |-> "none", inner |-> "none"]

\* Result<T, Error<E>>
Ok(v) == [ok |-> TRUE, val |-> v, err |-> NoError]

Err(e) == [ok |-> FALSE, val |-> NoValue, err |-> e]

\* Error::I2C(e)
I2C(e) == [kind |-> "Error::I2C", inner |-> e]

\* What the bus primitive answers: Ok(()) with the read buffer as it left it,
\* or Err(e).
BusOk(data) == [ok |-> TRUE, data |-> data, err |-> "none"]

BusErr(e) == [ok |-> FALSE, data |-> <<>>, err |-> e]

\* One invocation of a bus primitive, as a recording bus sees it.
Txn(op, address, bytes, readLen) ==
    [op |-> op, address |-> address, bytes |-> bytes, readLen |-> readLen]

\* Each adapter operation is given the bus's answer to the invocations it makes
\* and yields those invocations, in order, and its return value.
\* Mutant of write_register: a failed write is issued a second time.
write_register_retry(register, value, bus) ==
    LET txn == Txn("write", ADDRESS, <<Register[register], value>>, 0)
    IN  [ txns |-> IF bus.ok THEN <<txn>> ELSE <<txn, txn>>,
          ret  |-> IF bus.ok THEN Ok(Unit) ELSE Err(I2C(bus.err)) ]

write_register(register, value, bus) ==
    [ txns |-> << Txn("write", ADDRESS, <<Register[register], value>>, 0) >>,
      ret  |-> IF bus.ok THEN Ok(Unit) ELSE Err(I2C(bus.err)) ]

set_input_source_control(input_source_control, bus) ==
    write_register("InputSourceControl", input_source_control.byte, bus)

set_power_on_configuration(power_on_configuration, bus) ==
    write_register("PowerOnConfiguration", power_on_configuration.byte, bus)

set_misc_operation_control(misc_operation_control, bus) ==
    write_register("MiscOperationControl", misc_operation_control.byte, bus)

\* Mutant of read_register: the bus's error is dropped and the untouched
\* buffer returned.
read_register_swallow(register, bus) ==
    [ txns |-> << Txn("write_read", ADDRESS, <<Register[register]>>, 1) >>,
      ret  |-> IF bus.ok THEN Ok(bus.data[1]) ELSE Ok(0) ]

read_register(register, bus) ==
    [ txns |-> << Txn("write_read", ADDRESS, <<Register[register]>>, 1) >>,
      ret  |-> IF bus.ok THEN Ok(bus.data[1]) ELSE Err(I2C(bus.err)) ]

system_status(bus) ==
    LET r == read_register("SystemStatus", bus)
    IN  [ txns |-> r.txns,
          ret  |-> IF r.ret.ok THEN Ok(RegValue("SystemStatus", r.ret.val)) ELSE r.ret ]

fault(bus) ==
    LET r == read_register("Fault", bus)
    IN  [ txns |-> r.txns,
          ret  |-> IF r.ret.ok THEN Ok(RegValue("Fault", r.ret.val)) ELSE r.ret ]

WriteOps ==
    {"set_input_source_control", "set_power_on_configuration",
     "set_misc_operation_control"}

ReadOps == {"system_status", "fault"}

\* The register type a write operation takes, or a read operation returns.
OpRegister(op) ==
    CASE op = "set_input_source_control"   -> "InputSourceControl"
      [] op = "set_power_on_configuration" -> "PowerOnConfiguration"
      [] op = "set_misc_operation_control" -> "MiscOperationControl"
      [] op = "system_status"              -> "SystemStatus"
      [] op = "fault"                      -> "Fault"

WriteOpOf(t) == CHOOSE op \in WriteOps : OpRegister(op) = t

Adapter(op, value, bus) ==
    CASE op = "set_input_source_control"   -> set_input_source_control(value, bus)
      [] op = "set_power_on_configuration" -> set_power_on_configuration(value, bus)
      [] op = "set_misc_operation_control" -> set_misc_operation_control(value, bus)
      [] op = "system_status"              -> system_status(bus)
      [] op = "fault"                      -> fault(bus)

\* The errors the bus may answer with, and its answers to each primitive.
BusErrors == {"Nack", "ArbitrationLoss"}

WriteAnswers == {BusOk(<<>>)} \cup {BusErr(e) : e \in BusErrors}

ReadAnswers(bytes) == {BusOk(<<b>>) : b \in bytes} \cup {BusErr(e) : e \in BusErrors}

(***************************************************************************)
(* Codec harness: the input is drawn first (a byte, or a variant of an     *)
(* enumeration with an Into<u8>), then one conversion is applied to it.    *)
(***************************************************************************)
NoEnum == [enum |-> "none", variant |-> "none", disc |-> 0]

CodecIdle == cOp = <<"none", "none">> /\ cIn = [from |-> NoEnum, val |-> 0] /\ cOut = NoEnum

CodecInputs ==
    {[from |-> NoEnum, val |-> val] : val \in U8}
    \cup UNION {{[from |-> v, val |-> Into_u8(v)] : v \in Variants(e)} : e \in EncodedEnums}

\* e::from(val)
Decode(e) ==
    /\ cOp = <<"none", "none">>
    /\ cIn.from = NoEnum
    /\ cOp' = <<"from", e>>
    /\ cOut' \in From_u8(e, cIn.val)
    /\ UNCHANGED <<cIn, regVars, busVars>>

\* e::from(v.into())
RoundTrip(e) ==
    /\ cOp = <<"none", "none">>
    /\ cIn.from \in Variants(e)
    /\ cOp' = <<"into_from", e>>
    /\ cOut' \in From_u8(e, Into_u8(cIn.from))
    /\ UNCHANGED <<cIn, regVars, busVars>>

(***************************************************************************)
(* Register harness: a caller holding nothing constructs a register value  *)
(* or reads one back, calls its setters and accessors, hands it to the     *)
(* adapter, and lets go of what it holds.                                  *)
(***************************************************************************)
NoSet == [field |-> "none", arg |-> NoEnum]

NoGet == [field |-> "none", value |-> NoEnum]

NoWire == [txns |-> <<>>, answer |-> BusErr("none")]

NoRet == [ok |-> FALSE, val |-> NoValue, err |-> NoError]

RegIdle ==
    /\ regType = "none" /\ regByte = 0 /\ origin = "none" /\ preByte = 0
    /\ lastSet = NoSet /\ got = NoGet /\ wire = NoWire /\ ret = NoRet

\* The caller now holds a freshly constructed value.
Hold(t, byte, how) ==
    /\ regType' = t
    /\ regByte' = byte
    /\ preByte' = byte
    /\ origin' = how
    /\ lastSet' = NoSet
    /\ got' = NoGet

\* t::default()
NewDefault(t) ==
    /\ RegIdle
    /\ Hold(t, Default(t), "default")
    /\ wire' = NoWire
    /\ ret' = NoRet
    /\ UNCHANGED <<codecVars, busVars>>

\* t(byte)
FromRaw(t) ==
    /\ RegIdle
    /\ \E byte \in U8 : Hold(t, byte, "raw")
    /\ wire' = NoWire
    /\ ret' = NoRet
    /\ UNCHANGED <<codecVars, busVars>>

\* reg.set_<field>(value)
CallSetter ==
    /\ regType \in WritableRegisters
    /\ \E f \in Fields(regType) : \E value \in FieldValues(f) :
        /\ preByte' = regByte
        /\ regByte' = Setter(f, regByte, value)
        /\ lastSet' = [field |-> f.getter, arg |-> value]
    /\ got' = NoGet
    /\ UNCHANGED <<regType, origin, wire, ret, codecVars, busVars>>

\* reg.<field>()
CallGetter ==
    /\ \E f \in Fields(regType) : \E value \in Getter(f, regByte) :
        got' = [field |-> f.getter, value |-> value]
    /\ UNCHANGED <<regType, regByte, origin, preByte, lastSet, wire, ret,
                   codecVars, busVars>>

\* charger.set_<register>(reg): the value is moved into the call.
CallWrite ==
    /\ regType \in WritableRegisters
    /\ \E bus \in WriteAnswers :
        LET r == Adapter(WriteOpOf(regType), RegValue(regType, regByte), bus)
        IN  /\ wire' = [txns |-> r.txns, answer |-> bus]
            /\ ret' = r.ret
    /\ regType' = "none"
    /\ regByte' = 0
    /\ preByte' = 0
    /\ lastSet' = NoSet
    /\ got' = NoGet
    /\ UNCHANGED <<origin, codecVars, busVars>>

\* charger.system_status() / charger.fault(): the caller holds the value
\* returned, if any.
CallRead(op) ==
    /\ RegIdle
    /\ \E bus \in ReadAnswers(U8) :
        LET r == Adapter(op, NoValue, bus)
        IN  /\ wire' = [txns |-> r.txns, answer |-> bus]
            /\ ret' = r.ret
            /\ IF r.ret.ok
               THEN Hold(r.ret.val.type, r.ret.val.byte, "bus")
               ELSE Hold("none", 0, "none")
    /\ UNCHANGED <<codecVars, busVars>>

\* The value and the result held go out of scope.
Drop ==
    /\ ~RegIdle
    /\ regType' = "none" /\ regByte' = 0 /\ origin' = "none" /\ preByte' = 0
    /\ lastSet' = NoSet /\ got' = NoGet /\ wire' = NoWire /\ ret' = NoRet
    /\ UNCHANGED <<codecVars, busVars>>

(***************************************************************************)
(* Bus harness: a recording bus under a bounded sequence of adapter calls. *)
(***************************************************************************)
MaxCalls == 3

\* The stored bytes the calls carry and the bytes the bus answers with.
SampleBytes == {27, 93}

BusIdle == calls = <<>> /\ busLog = <<>> /\ results = <<>>

\* What the harness records of one adapter call.
CallRecord(op, value, bus) == [op |-> op, arg |-> value, bus |-> bus]

\* charger.set_<register>(value)
CallWriteOp ==
    /\ Len(calls) < MaxCalls
    /\ \E op \in WriteOps : \E byte \in SampleBytes : \E bus \in WriteAnswers :
        LET value == RegValue(OpRegister(op), byte)
            r     == Adapter(op, value, bus)
        IN  /\ calls' = Append(calls, CallRecord(op, value, bus))
            /\ busLog' = busLog \o r.txns
            /\ results' = Append(results, r.ret)
    /\ UNCHANGED <<codecVars, regVars>>

\* charger.system_status() / charger.fault()
CallReadOp ==
    /\ Len(calls) < MaxCalls
    /\ \E op \in ReadOps : \E bus \in ReadAnswers(SampleBytes) :
        LET r == Adapter(op, NoValue, bus)
        IN  /\ calls' = Append(calls, CallRecord(op, NoValue, bus))
            /\ busLog' = busLog \o r.txns
            /\ results' = Append(results, r.ret)
    /\ UNCHANGED <<codecVars, regVars>>

(***************************************************************************)
(* Specifications                                                          *)
(***************************************************************************)
InitCodec ==
    /\ cOp = <<"none", "none">>
    /\ cIn \in CodecInputs
    /\ cOut = NoEnum
    /\ RegIdle /\ BusIdle

NextCodec ==
    \/ \E e \in DecodedEnums : Decode(e)
    \/ \E e \in EncodedEnums : RoundTrip(e)

SpecCodec == InitCodec /\ [][NextCodec]_vars

InitReg == RegIdle /\ CodecIdle /\ BusIdle

NextReg ==
    \/ \E t \in WritableRegisters : NewDefault(t)
    \/ \E t \in WritableRegisters \cup ReadOnlyRegisters : FromRaw(t)
    \/ CallSetter
    \/ CallGetter
    \/ CallWrite
    \/ \E op \in ReadOps : CallRead(op)
    \/ Drop

SpecReg == InitReg /\ [][NextReg]_vars

InitBus == BusIdle /\ CodecIdle /\ RegIdle

NextBus ==
    \/ CallWriteOp
    \/ CallReadOp

SpecBus == InitBus /\ [][NextBus]_vars

(***************************************************************************)
(* Properties                                                              *)
(***************************************************************************)
\* Bit i of byte x, by arithmetic.
BitAt(x, i) == (x \div (2 ^ i)) % 2

\* Bits lsb..msb of byte x, by arithmetic.
BitsAt(x, msb, lsb) == (x \div (2 ^ lsb)) % (2 ^ (msb - lsb + 1))

\* The accessor `field`, if it was the one called, returned variant `name`.
GotIs(field, name) == got.field = field => got.value.variant = name

\* C1: round trip -- for every enumeration with both conversions and every
\* variant v of it, from(into(v)) is v.
RoundTripAll == cOp[1] = "into_from" => cOut = cIn.from

\* C2: decode totality -- for every enumeration and every byte, from(byte)
\* is one of the declared variants of the enumeration.
DecodeDeclared == cOp[1] = "from" => cOut \in Variants(cOp[2])

\* C3: field isolation -- a setter of a writable register changes only the
\* bits of its field's declared range: every other bit of the stored byte is
\* as before the call, and so is what every other field's accessor returns.
FieldIsolation ==
    lastSet # NoSet =>
        LET f == FieldOf(regType, lastSet.field)
        IN  /\ \A i \in 0..7 :
                (i < f.lsb \/ i > f.msb) => BitAt(regByte, i) = BitAt(preByte, i)
            /\ \A g \in Fields(regType) \ {f} :
                /\ BitsAt(regByte, g.msb, g.lsb) = BitsAt(preByte, g.msb, g.lsb)
                /\ Getter(g, regByte) = Getter(g, preByte)

\* A setter rewrote a field of a byte whose other bits were all set.
FieldIsolationWitness ==
    /\ regType = "InputSourceControl"
    /\ lastSet.field = "input_voltage_limit"
    /\ lastSet.arg.variant = "V3_88"
    /\ preByte = 255
    /\ regByte = 135

\* C4: set-then-get -- after set_X(v) on any register value, the accessor
\* for X returns exactly v.
SetThenGet ==
    (lastSet # NoSet /\ got.field = lastSet.field) => got.value = lastSet.arg

\* C5: default() of each writable register gives the documented byte and
\* field values: InputSourceControl 0b0011_0000 (hiz false, V4_36, MA100),
\* PowerOnConfiguration 0b0001_1011 (reset bits false, ChargeBattery, V3_5,
\* bit 0 set), MiscOperationControl 0b0000_1011 (both fault interrupts true).
DefaultValues ==
    (origin = "default" /\ lastSet = NoSet) =>
        /\ regType = "InputSourceControl" =>
            /\ regByte = 48
            /\ GotIs("hiz", "false")
            /\ GotIs("input_voltage_limit", "V4_36")
            /\ GotIs("input_current_limit", "MA100")
        /\ regType = "PowerOnConfiguration" =>
            /\ regByte = 27
            /\ GotIs("register_reset", "false")
            /\ GotIs("watchdog_reset", "false")
            /\ GotIs("charger_configuration", "ChargeBattery")
            /\ GotIs("minimum_system_voltage", "V3_5")
        /\ regType = "MiscOperationControl" =>
            /\ regByte = 11
            /\ GotIs("charge_fault_interrupt", "true")
            /\ GotIs("battery_fault_interrupt", "true")
            /\ GotIs("dpdm_detection", "false")
            /\ GotIs("safety_timer_slowed", "false")
            /\ GotIs("battery_fet_disabled", "false")

\* An accessor was called on a default PowerOnConfiguration.
DefaultWitness ==
    /\ origin = "default"
    /\ lastSet = NoSet
    /\ regType = "PowerOnConfiguration"
    /\ got.field = "minimum_system_voltage"

\* What the adapter call c must have put on the bus: one invocation.
ExpectedTxn(c) ==
    CASE c.op = "set_input_source_control" ->
            [op |-> "write", address |-> 107, bytes |-> <<0, c.arg.byte>>, readLen |-> 0]
      [] c.op = "set_power_on_configuration" ->
            [op |-> "write", address |-> 107, bytes |-> <<1, c.arg.byte>>, readLen |-> 0]
      [] c.op = "set_misc_operation_control" ->
            [op |-> "write", address |-> 107, bytes |-> <<7, c.arg.byte>>, readLen |-> 0]
      [] c.op = "system_status" ->
            [op |-> "write_read", address |-> 107, bytes |-> <<8>>, readLen |-> 1]
      [] c.op = "fault" ->
            [op |-> "write_read", address |-> 107, bytes |-> <<9>>, readLen |-> 1]

\* C6: one transaction per operation -- the log of bus invocations holds
\* exactly one entry per adapter call, in call order, each to address 0x6B:
\* a write of [register address, stored byte] for a set_ call, a write_read of
\* [register address] with a one-byte read buffer for system_status and fault.
OneTransactionPerCall ==
    /\ Len(busLog) = Len(calls)
    /\ \A i \in 1..Len(calls) : busLog[i] = ExpectedTxn(calls[i])

\* A write that failed was followed by a read and another write.
OneTransactionWitness ==
    /\ Len(calls) = 3
    /\ calls[1].op = "set_input_source_control" /\ ~calls[1].bus.ok
    /\ calls[2].op = "fault"
    /\ calls[3].op = "set_misc_operation_control" /\ calls[3].arg.byte = 93

\* C7: a transport failure is surfaced once with no recovery -- each call
\* invokes the bus primitive exactly once; when the primitive answers Err(e)
\* the call returns Error::I2C(e) and no register value; when it answers Ok
\* the call returns Ok; so a call's outcome depends only on the bus's answer
\* to that call.
TransportFailureSurfaced ==
    /\ Len(results) = Len(calls)
    /\ Len(busLog) = Len(calls)
    /\ \A i \in 1..Len(calls) :
        LET c == calls[i]
            r == results[i]
        IN  /\ c.bus.ok =>
                /\ r.ok
                /\ r.err.kind = "none"
                /\ c.op \in WriteOps => r.val = [type |-> "()", byte |-> 0]
                /\ c.op = "system_status" =>
                        r.val = [type |-> "SystemStatus", byte |-> c.bus.data[1]]
                /\ c.op = "fault" =>
                        r.val = [type |-> "Fault", byte |-> c.bus.data[1]]
            /\ ~c.bus.ok =>
                /\ ~r.ok
                /\ r.err = [kind |-> "Error::I2C", inner |-> c.bus.err]
                /\ r.val.type = "none"
    /\ \A i, j \in 1..Len(calls) :
        (calls[i].op = calls[j].op /\ calls[i].bus = calls[j].bus)
            => results[i] = results[j]

\* Two failures with different bus errors, then a success.
TransportFailureWitness ==
    /\ Len(calls) = 3
    /\ calls[1].op = "set_power_on_configuration" /\ calls[1].bus.err = "Nack"
    /\ calls[2].op = "system_status" /\ calls[2].bus.err = "ArbitrationLoss"
    /\ calls[3].op = "system_status" /\ results[3].ok

\* C8: ChargerConfiguration is many-to-one -- charger_configuration() gives
\* ChargeDisabled for bits 5-4 = 00, ChargeBattery for 01 and OTG for both 10
\* and 11, while set_charger_configuration(OTG) always stores 10.
OtgAlias ==
    /\ (regType = "PowerOnConfiguration" /\ got.field = "charger_configuration") =>
        got.value.variant =
            CASE BitsAt(regByte, 5, 4) = 0 -> "ChargeDisabled"
              [] BitsAt(regByte, 5, 4) = 1 -> "ChargeBattery"
              [] OTHER                    -> "OTG"
    /\ (lastSet.field = "charger_configuration" /\ lastSet.arg.variant = "OTG") =>
        BitsAt(regByte, 5, 4) = 2

\* C9: bit 0 of a PowerOnConfiguration made by default() and its setters is
\* always 1, and so is bit 0 of every byte set_power_on_configuration sends
\* for such a value to register 0x01.
PowerOnBit0 ==
    origin = "default" =>
        /\ regType = "PowerOnConfiguration" => BitAt(regByte, 0) = 1
        /\ \A i \in 1..Len(wire.txns) :
            (wire.txns[i].op = "write" /\ wire.txns[i].bytes[1] = 1)
                => BitAt(wire.txns[i].bytes[2], 0) = 1

\* A default PowerOnConfiguration with every field rewritten was sent.
PowerOnBit0Witness ==
    /\ origin = "default"
    /\ Len(wire.txns) = 1
    /\ wire.txns[1].bytes = <<1, 239>>

\* The thermistor_fault lookup, from bits 2-0.
ThermistorName(bits) ==
    CASE bits = 0 -> "Normal"
      [] bits = 5 -> "Cold"
      [] bits = 6 -> "Hot"
      [] OTHER    -> "Unknown"

\* C10 (as amended): fault() wraps the byte the bus returned verbatim and the
\* accessors decode it by the fixed layout (watchdog bit 7, charge_fault bits
\* 5-4, battery_fault bit 3, thermistor_fault bits 2-0 with 000 Normal, 101
\* Cold, 110 Hot, otherwise Unknown); for the byte 0b1_01_1_101 = 0x5D, whose
\* bit 7 is clear, that is watchdog Normal, charge_fault InputFault,
\* battery_fault OverVoltageThreshold, thermistor_fault Cold.
FaultDecode ==
    (regType = "Fault" /\ origin = "bus") =>
        /\ wire.answer.ok
        /\ regByte = wire.answer.data[1]
        /\ ret = [ok |-> TRUE, val |-> [type |-> "Fault", byte |-> wire.answer.data[1]],
                  err |-> [kind |-> "none", inner |-> "none"]]
        /\ got.field # "none" => got.value \in Variants(got.value.enum)
        /\ got.field = "watchdog" =>
            /\ got.value.enum = "Watchdog"
            /\ got.value.variant = (IF BitAt(regByte, 7) = 1 THEN "Expired" ELSE "Normal")
        /\ got.field = "charge_fault" =>
            /\ got.value.enum = "ChargeFault"
            /\ got.value.variant =
                <<"Normal", "InputFault", "ThermalShutdown", "SafetyTimerExpired">>
                    [BitsAt(regByte, 5, 4) + 1]
        /\ got.field = "battery_fault" =>
            /\ got.value.enum = "BatteryFault"
            /\ got.value.variant =
                (IF BitAt(regByte, 3) = 1 THEN "OverVoltageThreshold" ELSE "Normal")
        /\ got.field = "thermistor_fault" =>
            /\ got.value.enum = "ThermistorFault"
            /\ got.value.variant = ThermistorName(BitsAt(regByte, 2, 0))
        /\ regByte = 93 =>
            /\ GotIs("watchdog", "Normal")
            /\ GotIs("charge_fault", "InputFault")
            /\ GotIs("battery_fault", "OverVoltageThreshold")
            /\ GotIs("thermistor_fault", "Cold")

\* fault() returned 0x5D and watchdog() was called on the result.
FaultDecodeWitness ==
    /\ regType = "Fault"
    /\ origin = "bus"
    /\ regByte = 93
    /\ got.field = "watchdog"

\* C10 (as stated): when the bus returns the byte 0b1_01_1_101, the result of
\* fault() decodes to watchdog Expired, charge_fault InputFault, battery_fault
\* OverVoltageThreshold, thermistor_fault Cold.
FaultExampleAsStated ==
    (regType = "Fault" /\ origin = "bus" /\ regByte = 93) =>
        /\ GotIs("watchdog", "Expired")
        /\ GotIs("charge_fault", "InputFault")
        /\ GotIs("battery_fault", "OverVoltageThreshold")
        /\ GotIs("thermistor_fault", "Cold")

====
